---- MODULE Spec2Model ----
(***************************************************************************)
(* Model of pyldm/fit/svd_ga.py: the SVD_GA object (updateData), the       *)
(* column selection (_get_wLSVs_for_fit), the decay-matrix generator       *)
(* (_genD), the back-substitution of the linear solver (_getDAS), the      *)
(* objective and fit driver (_min, _GA, Global) and the result view        *)
(* (_plot_res and its slider callback).                                    *)
(*                                                                         *)
(* Numbers.  Lifetimes, widths and matrix entries are reals in the code.   *)
(* The decay entries are transcendental (exp, erf), so an entry is kept as *)
(* the expression the code evaluates: a record naming the form and every   *)
(* argument of it.  The back-substitution is exact rational arithmetic.    *)
(* The names sqrt, log and exp used unqualified in _genD are taken to be   *)
(* the elementary functions.                                               *)
(***************************************************************************)
EXTENDS Integers, Naturals, Sequences, FiniteSets, TLC

VARIABLES
    self,      \* the SVD_GA object's fields
    pc,        \* "idle", or where the running Global call is: "minimize", "fitted"
    call,      \* the arguments of the running Global call
    sel,       \* the result of _get_wLSVs_for_fit for that call
    taus,      \* the parameter vector last handed to _genD
    D,         \* the decay matrix last built by _genD
    DAS,       \* the amplitude matrix last built by _getDAS
    res,       \* the residual last returned by _min
    SpecFit,   \* the reconstruction D.dot(DAS) of _GA
    evals,     \* objective evaluations of the running minimize call
    renders,   \* _plot_res calls of the running / last call
    fig,       \* the "GA Fits" figure: slider range and the callback's closure
    out,       \* how the last Global call ended
    bs         \* the linear solver's factor R, right-hand side QtY and result

vars == <<self, pc, call, sel, taus, D, DAS, res, SpecFit, evals, renders, fig, out, bs>>

----------------------------------------------------------------------------
(* Bounds of the model *)

MaxC == 3          \* columns of the largest basis (and rows of the time grid)
MaxK == 2          \* lifetimes of the largest fit
MaxEvals == 2      \* objective evaluations the optimizer makes at most
MaxSelLen == 5     \* characters of the longest selector string
MaxR == 3          \* order of the largest triangular factor R

Min(a, b) == IF a <= b THEN a ELSE b

----------------------------------------------------------------------------
(* DataSource: get_SVD, get_T, get_IRF.  U has orthonormal columns, the    *)
(* singular values are positive and descending.                            *)

FwhmVals == {0, 2}

Tgrid == [i \in 1..MaxC |-> i - 1]

Data(c, f) ==
    [U     |-> [i \in 1..MaxC |-> [j \in 1..c |-> IF i = j THEN 1 ELSE 0]],
     Svals |-> [j \in 1..c |-> c - j + 1],
     Vt    |-> c,
     T     |-> Tgrid,
     wls   |-> c,
     FWHM  |-> f]

DataSets == { Data(c, f) : c \in 2..MaxC, f \in FwhmVals }

\* np.diag(S)
Diag(s) == [i \in 1..Len(s) |-> [j \in 1..Len(s) |-> IF i = j THEN s[i] ELSE 0]]

RECURSIVE SumTo(_, _)
SumTo(f, n) == IF n = 0 THEN 0 ELSE f[n] + SumTo(f, n - 1)

\* A.dot(B) for integer matrices, as sequences of rows
Dot(A, B) ==
    [i \in 1..Len(A) |->
        [j \in 1..Len(B[1]) |->
            SumTo([k \in 1..Len(B) |-> A[i][k] * B[k][j]], Len(B))]]

\* FWHM / (2*sqrt(ln 2)): the sigma-equivalent of a width.  The divisor is
\* irrational; the value is kept as the width it was converted from.
SigmaOf(fwhm) == [fwhm_over_2sqrtln2 |-> fwhm]

IsZeroWidth(w) == w.fwhm_over_2sqrtln2 = 0

\* the fields updateData sets
updateData(data) ==
    [U        |-> data.U,
     Svals    |-> data.Svals,
     S        |-> [kind |-> "diag", val |-> Diag(data.Svals)],
     Vt       |-> data.Vt,
     wLSV     |-> Dot(data.U, Diag(data.Svals)),
     T        |-> data.T,
     wls      |-> data.wls,
     FWHM     |-> data.FWHM,
     FWHM_mod |-> SigmaOf(data.FWHM)]

NCols(A) == IF Len(A) = 0 THEN 0 ELSE Len(A[1])

----------------------------------------------------------------------------
(* Selector strings and _get_wLSVs_for_fit *)

Chars == {" ", "0", "1", "2", "3"}

RECURSIVE StringsUpTo(_)
StringsUpTo(n) ==
    IF n = 0 THEN {<<>>}
    ELSE LET shorter == StringsUpTo(n - 1)
         IN  shorter \cup { Append(s, c) : s \in shorter, c \in Chars }

Selectors == StringsUpTo(MaxSelLen)

\* str.split(): the maximal runs of non-blank characters, in order
RECURSIVE SplitFrom(_, _, _)
SplitFrom(s, i, cur) ==
    IF i > Len(s)
    THEN IF cur = <<>> THEN <<>> ELSE <<cur>>
    ELSE IF s[i] = " "
         THEN IF cur = <<>> THEN SplitFrom(s, i + 1, <<>>)
              ELSE <<cur>> \o SplitFrom(s, i + 1, <<>>)
         ELSE SplitFrom(s, i + 1, Append(cur, s[i]))

split(s) == SplitFrom(s, 1, <<>>)

DigitVal(c) == CASE c = "0" -> 0 [] c = "1" -> 1 [] c = "2" -> 2 [] c = "3" -> 3

\* int(token) for a token of decimal digits
RECURSIVE int(_)
int(tok) ==
    IF Len(tok) = 0 THEN 0
    ELSE 10 * int(SubSeq(tok, 1, Len(tok) - 1)) + DigitVal(tok[Len(tok)])

\* wLSV[:, :n]
Prefix(wLSV, n) ==
    [i \in 1..Len(wLSV) |-> [j \in 1..Min(n, NCols(wLSV)) |-> wLSV[i][j]]]

\* the 1-based column that the 0-based index p = n - 1 addresses in a matrix of
\* c columns (a negative p counts from the end), 0 when p is out of range
ColumnAt(n, c) ==
    IF n >= 1 /\ n <= c THEN n
    ELSE IF n <= 0 /\ n - 1 >= -c THEN n + c
    ELSE 0

\* _get_wLSVs_for_fit with the 1-based to 0-based shift of line 148 dropped
get_wLSVs_for_fit_unshifted(wLSV, wLSVs) ==
    LET toks == split(wLSVs)
        idx  == [j \in 1..Len(toks) |-> int(toks[j])]
    IN  IF toks # <<>>
        THEN IF Len(idx) = 1
             THEN [status |-> "ok", indices |-> idx, fit |-> Prefix(wLSV, idx[1])]
             ELSE IF \E j \in 1..Len(idx) : ColumnAt(idx[j] + 1, NCols(wLSV)) = 0
                  THEN [status |-> "IndexError", indices |-> idx, fit |-> <<>>]
                  ELSE [status |-> "ok", indices |-> idx,
                        fit |-> [i \in 1..Len(wLSV) |->
                                   [j \in 1..Len(idx) |->
                                      wLSV[i][ColumnAt(idx[j] + 1, NCols(wLSV))]]]]
        ELSE [status |-> "ok", indices |-> <<3>>, fit |-> Prefix(wLSV, 3)]

get_wLSVs_for_fit(wLSV, wLSVs) ==
    LET toks == split(wLSVs)
        idx  == [j \in 1..Len(toks) |-> int(toks[j])]
    IN  IF toks # <<>>
        THEN IF Len(idx) = 1
             THEN [status |-> "ok", indices |-> idx, fit |-> Prefix(wLSV, idx[1])]
             ELSE IF \E j \in 1..Len(idx) : ColumnAt(idx[j], NCols(wLSV)) = 0
                  THEN [status |-> "IndexError", indices |-> idx, fit |-> <<>>]
                  ELSE [status |-> "ok", indices |-> idx,
                        fit |-> [i \in 1..Len(wLSV) |->
                                   [j \in 1..Len(idx) |->
                                      wLSV[i][ColumnAt(idx[j], NCols(wLSV))]]]]
        ELSE [status |-> "ok", indices |-> <<3>>, fit |-> Prefix(wLSV, 3)]

----------------------------------------------------------------------------
(* _genD.  An entry is the expression the code evaluates for it:           *)
(*   exp:  np.exp(-t/tau)                                                  *)
(*   emg:  0.5*(np.exp(-t/tau)*exp(w**2/exp2_den)/tau)                     *)
(*           * (1 + erf((t-(w**2/tau))/(sqrt(2)*w)))                       *)
(* where exp2_den is the divisor the code writes under w**2.               *)

ExpEntry(t, tau) == [form |-> "exp", t |-> t, tau |-> tau]

EmgEntry(t, tau, w) ==
    [form |-> "emg", t |-> t, tau |-> tau, w |-> w, exp2_den |-> 2 * tau]

\* the column count with the width counted as a lifetime
genD_ncols_all(taus_, fit_irf) == Len(taus_)

\* columns of D: len(taus)-1 when the width is fitted, else len(taus)
genD_ncols(taus_, fit_irf) == IF fit_irf THEN Len(taus_) - 1 ELSE Len(taus_)

\* _genD convolving with the stored width also when the width is fitted
genD_stored_width(taus_, T, fit_irf, FWHM_mod) ==
    [i \in 1..Len(T) |->
        [j \in 1..genD_ncols(taus_, fit_irf) |->
            IF fit_irf \/ ~IsZeroWidth(FWHM_mod)
            THEN EmgEntry(T[i], taus_[j], FWHM_mod)
            ELSE ExpEntry(T[i], taus_[j])]]

genD(taus_, T, fit_irf, FWHM_mod) ==
    [i \in 1..Len(T) |->
        [j \in 1..genD_ncols(taus_, fit_irf) |->
            IF fit_irf
            THEN EmgEntry(T[i], taus_[j], SigmaOf(taus_[Len(taus_)]))
            ELSE IF ~IsZeroWidth(FWHM_mod)
                 THEN EmgEntry(T[i], taus_[j], FWHM_mod)
                 ELSE ExpEntry(T[i], taus_[j])]]

----------------------------------------------------------------------------
(* _getDAS on a decay matrix of expressions.  np.linalg.qr is taken by its *)
(* contract in exact arithmetic: R[k,k] = 0 exactly when column k of D_aug *)
(* depends on the columns before it, which for decay columns is a repeated *)
(* lifetime; with alpha # 0 the stacked identity makes D_aug of full rank. *)
(* A row of the result is "finite" or "nan" (inf or nan: numpy divides by  *)
(* zero without raising).                                                  *)

Column(A, j) == [i \in 1..Len(A) |-> A[i][j]]

\* an entry whose expression divides by zero
DividesByZero(e) ==
    \/ e.tau = 0
    \/ e.form = "emg" /\ IsZeroWidth(e.w)

Unclean(A) == \E i \in 1..Len(A) : \E j \in 1..NCols(A) : DividesByZero(A[i][j])

\* R[k,k] = 0
ZeroDiag(A, alpha, k) ==
    alpha = 0 /\ \E j \in 1..(k - 1) : Column(A, j) = Column(A, k)

\* lines 101-106: row k is divided by R[k,k] after subtracting the rows below
getDAS(A, Y, alpha) ==
    [rows  |-> [k \in 1..NCols(A) |->
                  IF Unclean(A) \/ \E m \in k..NCols(A) : ZeroDiag(A, alpha, m)
                  THEN "nan" ELSE "finite"],
     ncols |-> NCols(Y)]

HasNan(X) == \E k \in 1..Len(X.rows) : X.rows[k] = "nan"

\* np.sum((Y - D.dot(DAS))**2)
Residual(A, X) == IF X.ncols > 0 /\ HasNan(X) THEN "nan" ELSE "finite"

\* D.dot(DAS)
DotDAS(A, X) ==
    [nrows |-> Len(A), ncols |-> X.ncols,
     val |-> IF X.ncols > 0 /\ HasNan(X) THEN "nan" ELSE "finite"]

----------------------------------------------------------------------------
(* The object and its operations *)

TauVals == {-1, 0, 2}        \* values the optimizer may try for a lifetime
WidthVals == {1}             \* values the optimizer may try for the width
AlphaVals == {0, 1}

\* the selector strings of the Global calls
CallSelectors == { <<>>, <<"2">>, <<"0">>, <<"3", " ", "1">> }

\* the points the optimizer may try or return: n parameters, the last of
\* them the width when it is fitted
ParamVectors(n, fit_irf) ==
    IF fit_irf
    THEN { Append(x, w) : x \in [1..(n - 1) -> TauVals], w \in WidthVals }
    ELSE [1..n -> TauVals]

NoCall == [wLSVs |-> <<>>, x0len |-> 0, alpha |-> 0, fit_irf |-> FALSE]
NoSel == [status |-> "none", indices |-> <<>>, fit |-> <<>>]
NoDAS == [rows |-> <<>>, ncols |-> 0]
NoSpecFit == [nrows |-> 0, ncols |-> 0, val |-> "none"]
NoFig == [open |-> FALSE, wLSV_fit |-> <<>>, wLSVs |-> <<>>, SpecFit |-> NoSpecFit,
          valmax |-> 0, col |-> 0, label |-> 0, err |-> "none"]
NoBs == [R |-> <<>>, QtY |-> <<>>, X |-> <<>>, done |-> FALSE]

\* the arguments and locals of a Global call end with the call
LocalsGone ==
    /\ call' = NoCall /\ sel' = NoSel /\ taus' = <<>> /\ D' = <<>>
    /\ DAS' = NoDAS /\ res' = "none" /\ SpecFit' = NoSpecFit

Init ==
    /\ self \in { updateData(d) : d \in DataSets }
    /\ pc = "idle"
    /\ call = NoCall /\ sel = NoSel /\ taus = <<>> /\ D = <<>>
    /\ DAS = NoDAS /\ res = "none" /\ SpecFit = NoSpecFit
    /\ evals = 0 /\ renders = 0
    /\ fig = NoFig
    /\ out = [status |-> "none", value |-> <<>>]
    /\ bs = NoBs

\* updateData(data), between fits
UpdateData ==
    /\ pc = "idle"
    /\ \E d \in DataSets : self' = updateData(d)
    /\ UNCHANGED <<pc, call, sel, taus, D, DAS, res, SpecFit, evals, renders, fig,
                   out, bs>>

\* Global, lines 122-123: the call and its column selection.  x0 holds k
\* lifetimes, and the width after them when fit_irf.  fig is the figure of the
\* latest call: a new call starts with none.
GlobalCall ==
    /\ pc = "idle"
    /\ \E s \in CallSelectors, k \in 1..MaxK, a \in AlphaVals, f \in BOOLEAN :
          LET r == get_wLSVs_for_fit(self.wLSV, s)
          IN  IF r.status = "IndexError"
              THEN /\ pc' = "idle"
                   /\ out' = [status |-> "IndexError", value |-> <<>>]
                   /\ LocalsGone
                   /\ evals' = 0 /\ renders' = 0
              ELSE /\ pc' = "minimize"
                   /\ call' = [wLSVs |-> s, x0len |-> IF f THEN k + 1 ELSE k,
                               alpha |-> a, fit_irf |-> f]
                   /\ sel' = r
                   /\ out' = [status |-> "running", value |-> <<>>]
                   /\ taus' = <<>> /\ D' = <<>> /\ DAS' = NoDAS /\ res' = "none"
                   /\ SpecFit' = NoSpecFit /\ evals' = 0 /\ renders' = 0
    /\ fig' = NoFig
    /\ UNCHANGED <<self, bs>>

\* an objective evaluation that also renders
MinEvalRendering ==
    /\ pc = "minimize"
    /\ evals < MaxEvals
    /\ \E x \in ParamVectors(call.x0len, call.fit_irf) :
          LET Dx == genD(x, self.T, call.fit_irf, self.FWHM_mod)
              X  == getDAS(Dx, sel.fit, call.alpha)
          IN  /\ taus' = x
              /\ D' = Dx
              /\ DAS' = X
              /\ res' = Residual(Dx, X)
    /\ evals' = evals + 1
    /\ renders' = renders + 1
    /\ UNCHANGED <<self, pc, call, sel, SpecFit, fig, out, bs>>

\* _min, lines 109-113: one objective evaluation by the optimizer
MinEval ==
    /\ pc = "minimize"
    /\ evals < MaxEvals
    /\ \E x \in ParamVectors(call.x0len, call.fit_irf) :
          LET Dx == genD(x, self.T, call.fit_irf, self.FWHM_mod)
              X  == getDAS(Dx, sel.fit, call.alpha)
          IN  /\ taus' = x
              /\ D' = Dx
              /\ DAS' = X
              /\ res' = Residual(Dx, X)
    /\ evals' = evals + 1
    /\ UNCHANGED <<self, pc, call, sel, SpecFit, renders, fig, out, bs>>

\* _GA, lines 116-120: the optimizer returns result.x; D, DAS and the
\* reconstruction are recomputed there
GAReturn ==
    /\ pc = "minimize"
    /\ evals >= 1
    /\ \E x \in ParamVectors(call.x0len, call.fit_irf) :
          LET Dx == genD(x, self.T, call.fit_irf, self.FWHM_mod)
              X  == getDAS(Dx, sel.fit, call.alpha)
          IN  /\ taus' = x
              /\ D' = Dx
              /\ DAS' = X
              /\ SpecFit' = DotDAS(Dx, X)
    /\ pc' = "fitted"
    /\ evals' = 0
    /\ UNCHANGED <<self, call, sel, res, renders, fig, out, bs>>

\* taus[:-1]
AllButLast(x) == SubSeq(x, 1, Len(x) - 1)

\* _plot_res, lines 155-156: the labels of the fitted columns
plot_labels(wLSVs) ==
    IF Len(wLSVs) = 1 THEN [n \in 1..wLSVs[1] |-> n] ELSE wLSVs

\* the slider's largest position, line 171
slider_valmax(lifetimes) == Len(lifetimes) + 1

\* Global, lines 126-132: _plot_res, then the return.  _plot_res raises at
\* line 166 when no column was fitted, before it replaces self.S.
GlobalFinish ==
    /\ pc = "fitted"
    /\ LET lifetimes == IF call.fit_irf THEN AllButLast(taus) ELSE taus
       IN  IF NCols(sel.fit) = 0
           THEN /\ out' = [status |-> "IndexError", value |-> <<>>]
                /\ UNCHANGED <<self, fig>>
           ELSE /\ self' = [self EXCEPT !.S =
                               [kind |-> "slider", valmin |-> 1,
                                valmax |-> slider_valmax(lifetimes)]]
                /\ fig' = [open |-> TRUE, wLSV_fit |-> sel.fit,
                           wLSVs |-> plot_labels(sel.indices),
                           SpecFit |-> SpecFit,
                           valmax |-> slider_valmax(lifetimes),
                           col |-> 1, label |-> 1, err |-> "none"]
                /\ out' = [status |-> "returned",
                           value |-> IF call.fit_irf
                                     THEN <<lifetimes, taus[Len(taus)]>>
                                     ELSE <<lifetimes>>]
    /\ renders' = renders + 1
    /\ pc' = "idle"
    /\ LocalsGone
    /\ UNCHANGED <<evals, bs>>

\* update(val), lines 172-179: the slider of the figure is moved to n.  The
\* callback reads self.S, then column n-1 of wLSV_fit, wLSVs[n-1] and column
\* n-1 of SpecFit; the axes are cleared before the first of these can raise.
SliderChanged ==
    /\ pc = "idle"
    /\ fig.open
    /\ \E n \in 1..fig.valmax :
          fig' = IF self.S.kind # "slider"
                 THEN [fig EXCEPT !.col = 0, !.label = 0, !.err = "AttributeError"]
                 ELSE IF \/ n > NCols(fig.wLSV_fit)
                         \/ n > Len(fig.wLSVs)
                         \/ n > fig.SpecFit.ncols
                      THEN [fig EXCEPT !.col = 0, !.label = 0, !.err = "IndexError"]
                      ELSE [fig EXCEPT !.col = n, !.label = fig.wLSVs[n],
                                       !.err = "none"]
    /\ UNCHANGED <<self, pc, call, sel, taus, D, DAS, res, SpecFit, evals, renders,
                   out, bs>>

Next ==
    \/ UpdateData
    \/ GlobalCall
    \/ MinEval
    \/ GAReturn
    \/ GlobalFinish
    \/ SliderChanged

Spec == Init /\ [][Next]_vars

----------------------------------------------------------------------------
(* _get_wLSVs_for_fit alone, on every selector string *)

SelInit ==
    /\ self \in { updateData(d) : d \in DataSets }
    /\ pc = "select"
    /\ \E s \in Selectors : call = [NoCall EXCEPT !.wLSVs = s]
    /\ sel = NoSel /\ taus = <<>> /\ D = <<>>
    /\ DAS = NoDAS /\ res = "none" /\ SpecFit = NoSpecFit
    /\ evals = 0 /\ renders = 0
    /\ fig = NoFig
    /\ out = [status |-> "none", value |-> <<>>]
    /\ bs = NoBs

SelApply ==
    /\ pc = "select"
    /\ sel' = get_wLSVs_for_fit(self.wLSV, call.wLSVs)
    /\ pc' = "selected"
    /\ UNCHANGED <<self, call, taus, D, DAS, res, SpecFit, evals, renders, fig, out,
                   bs>>

SelNext == SelApply

SpecSel == SelInit /\ [][SelNext]_vars

----------------------------------------------------------------------------
(* The back-substitution of _getDAS, lines 98-107, in exact arithmetic.    *)
(* A number is a fraction <<n, d>> in lowest terms with d > 0; <<0, 0>> is *)
(* a non-finite value (numpy's inf or nan, which a division by zero        *)
(* yields and every later operation keeps).                                *)

NonFinite == <<0, 0>>

IsFinite(a) == a[2] # 0

Abs(n) == IF n < 0 THEN -n ELSE n

RECURSIVE GCD(_, _)
GCD(a, b) == IF b = 0 THEN a ELSE GCD(b, a % b)

Frac(n, d) ==
    IF d = 0 THEN NonFinite
    ELSE LET g == GCD(Abs(n), Abs(d))
         IN  IF d < 0 THEN <<(-n) \div g, (-d) \div g>> ELSE <<n \div g, d \div g>>

RAdd(a, b) ==
    IF IsFinite(a) /\ IsFinite(b) THEN Frac(a[1] * b[2] + b[1] * a[2], a[2] * b[2])
    ELSE NonFinite

RSub(a, b) ==
    IF IsFinite(a) /\ IsFinite(b) THEN Frac(a[1] * b[2] - b[1] * a[2], a[2] * b[2])
    ELSE NonFinite

RMul(a, b) ==
    IF IsFinite(a) /\ IsFinite(b) THEN Frac(a[1] * b[1], a[2] * b[2])
    ELSE NonFinite

RDiv(a, b) ==
    IF IsFinite(a) /\ IsFinite(b) THEN Frac(a[1] * b[2], a[2] * b[1])
    ELSE NonFinite

\* row operations: v + w, v - w, r*v, v/r
VAdd(v, w) == [c \in 1..Len(v) |-> RAdd(v[c], w[c])]
VSub(v, w) == [c \in 1..Len(v) |-> RSub(v[c], w[c])]
VScale(r, v) == [c \in 1..Len(v) |-> RMul(r, v[c])]
VDiv(v, r) == [c \in 1..Len(v) |-> RDiv(v[c], r)]

ZeroRow(n) == [c \in 1..n |-> <<0, 1>>]

\* lines 104-106: the inner loop over k, with the row i reassigned in each pass
RECURSIVE InnerLoop(_, _, _, _, _, _)
InnerLoop(R, QtY, X, i, k, s) ==
    IF k > Len(X) THEN X
    ELSE LET s2 == VAdd(s, VScale(R[i][k], X[k]))
             X2 == [X EXCEPT ![i] = VDiv(VSub(QtY[i], s2), R[i][i])]
         IN  InnerLoop(R, QtY, X2, i, k + 1, s2)

\* lines 102-103: rows len(DAS)-2 down to 0, each with s = 0
RECURSIVE OuterLoop(_, _, _, _)
OuterLoop(R, QtY, X, i) ==
    IF i < 1 THEN X
    ELSE OuterLoop(R, QtY, InnerLoop(R, QtY, X, i, i + 1, ZeroRow(Len(QtY[1]))), i - 1)

\* the inner loop with the row assigned before the term of this pass is added
RECURSIVE InnerLoopStale(_, _, _, _, _, _)
InnerLoopStale(R, QtY, X, i, k, s) ==
    IF k > Len(X) THEN X
    ELSE LET s2 == VAdd(s, VScale(R[i][k], X[k]))
             X2 == [X EXCEPT ![i] = VDiv(VSub(QtY[i], s), R[i][i])]
         IN  InnerLoopStale(R, QtY, X2, i, k + 1, s2)

RECURSIVE OuterLoopStale(_, _, _, _)
OuterLoopStale(R, QtY, X, i) ==
    IF i < 1 THEN X
    ELSE OuterLoopStale(R, QtY,
                        InnerLoopStale(R, QtY, X, i, i + 1, ZeroRow(Len(QtY[1]))), i - 1)

BackSubStale(R, QtY) ==
    LET K  == Len(R)
        X0 == [i \in 1..K |-> ZeroRow(Len(QtY[1]))]
        X1 == [X0 EXCEPT ![K] = VDiv(QtY[K], R[K][K])]
    IN  OuterLoopStale(R, QtY, X1, K - 1)

\* lines 98-107
BackSub(R, QtY) ==
    LET K  == Len(R)
        X0 == [i \in 1..K |-> ZeroRow(Len(QtY[1]))]
        X1 == [X0 EXCEPT ![K] = VDiv(QtY[K], R[K][K])]
    IN  OuterLoop(R, QtY, X1, K - 1)

\* The factor and right-hand side np.linalg.qr and Qt.dot(Y_aug) hand to the
\* loop: R upper triangular of order K, QtY of K rows.
DiagVals == {0, -1, 2}
OffVals == {0, 1}
QtYRows == { <<<<1, 1>>, <<0, 1>>>>, <<<<3, 1>>, <<-2, 1>>>> }

Above(K) == { p \in (1..K) \X (1..K) : p[1] < p[2] }

Triangular(K) ==
    { [i \in 1..K |-> [k \in 1..K |->
          IF i = k THEN <<dg[i], 1>> ELSE IF i < k THEN <<up[<<i, k>>], 1>> ELSE <<0, 1>>]] :
      dg \in [1..K -> DiagVals], up \in [Above(K) -> OffVals] }

BsInit ==
    /\ \E K \in 1..MaxR : \E R \in Triangular(K) : \E Z \in [1..K -> QtYRows] :
          bs = [R |-> R, QtY |-> Z, X |-> <<>>, done |-> FALSE]
    /\ self = updateData(Data(2, 0))
    /\ pc = "solve"
    /\ call = NoCall /\ sel = NoSel /\ taus = <<>> /\ D = <<>>
    /\ DAS = NoDAS /\ res = "none" /\ SpecFit = NoSpecFit
    /\ evals = 0 /\ renders = 0
    /\ fig = NoFig
    /\ out = [status |-> "none", value |-> <<>>]

BsApply ==
    /\ pc = "solve"
    /\ bs' = [bs EXCEPT !.X = BackSub(bs.R, bs.QtY), !.done = TRUE]
    /\ pc' = "solved"
    /\ UNCHANGED <<self, call, sel, taus, D, DAS, res, SpecFit, evals, renders, fig,
                   out>>

BsNext == BsApply

SpecDAS == BsInit /\ [][BsNext]_vars

----------------------------------------------------------------------------
(* Claims *)

BasisCols == NCols(self.wLSV)

AllBlank(s) == \A i \in 1..Len(s) : s[i] = " "

NotBlank(c) == c # " "

\* every integer of the selector is written with a single digit
SingleDigits(s) == \A i \in 1..(Len(s) - 1) : s[i] = " " \/ s[i + 1] = " "

\* the integers such a selector holds, in the order written
Digits(s) == SelectSeq(s, NotBlank)
Held(s) == [j \in 1..Len(Digits(s)) |-> DigitVal(Digits(s)[j])]

\* Y is the columns cols (1-based, in this order) of wLSV
IsColumns(Y, cols) ==
    /\ Len(Y) = Len(self.wLSV)
    /\ \A i \in 1..Len(Y) :
          /\ Len(Y[i]) = Len(cols)
          /\ \A j \in 1..Len(cols) : Y[i][j] = self.wLSV[i][cols[j]]

UpTo(n) == [j \in 1..n |-> j]

\* the cases of a selector holding one integer, and two or more integers, each
\* in 1..C
C1_SingleAndMulti ==
    LET ns == Held(call.wLSVs)
    IN  (/\ SingleDigits(call.wLSVs)
         /\ Len(ns) >= 1
         /\ \A j \in 1..Len(ns) : ns[j] >= 1 /\ ns[j] <= BasisCols) =>
            /\ sel.status = "ok"
            /\ IF Len(ns) = 1 THEN IsColumns(sel.fit, UpTo(ns[1]))
                               ELSE IsColumns(sel.fit, ns)

\* C1 as stated: the empty or blank selector gives columns 1..3, a single
\* integer N the columns 1..N, two or more integers exactly those columns in
\* the given order.
C1_Original ==
    pc = "selected" =>
        /\ AllBlank(call.wLSVs) =>
              sel.status = "ok" /\ NCols(sel.fit) = 3 /\ IsColumns(sel.fit, UpTo(3))
        /\ C1_SingleAndMulti

\* C1 as amended: the empty or blank selector gives the first min(3, C)
\* columns of a basis with C columns; a single integer N in 1..C gives columns
\* 1..N; two or more integers in 1..C give exactly those columns, in the given
\* order, repeated where the selector repeats them.
C1_Selection ==
    pc = "selected" =>
        /\ AllBlank(call.wLSVs) =>
              sel.status = "ok" /\ IsColumns(sel.fit, UpTo(Min(3, BasisCols)))
        /\ C1_SingleAndMulti

C1_Witness ==
    /\ pc = "selected"
    /\ call.wLSVs = <<" ", " ">>
    /\ BasisCols = 2
    /\ sel.status = "ok"
    /\ NCols(sel.fit) = 2

InFit == pc \in {"minimize", "fitted"} /\ D # <<>>

\* the lifetimes among the parameters handed to _genD
Lifetimes == 1..genD_ncols(taus, call.fit_irf)

C2_DecayColumns ==
    (InFit /\ call.fit_irf) =>
        /\ Len(taus) = call.x0len
        /\ \A i \in 1..Len(D) :
              /\ Len(D[i]) = call.x0len - 1
              /\ \A j \in 1..Len(D[i]) :
                    /\ D[i][j].tau = taus[j]
                    /\ D[i][j].w = SigmaOf(taus[call.x0len])

C2_ReturnSplit ==
    (pc = "fitted" /\ call.fit_irf /\ out'.status = "returned") =>
        /\ Len(out'.value) = 2
        /\ Len(out'.value[1]) = call.x0len - 1
        /\ \A j \in 1..(call.x0len - 1) : out'.value[1][j] = taus[j]
        /\ out'.value[2] = taus[call.x0len]

\* C2: with fit_irf and a parameter vector of K+1 entries, every decay
\* matrix of the fit (objective evaluations and final recomputation) has K
\* columns, column j built from entry j and the width from the last entry
\* alone; Global returns the first K entries as lifetimes and the last entry
\* as the width.
C2_WidthFitting == [](C2_DecayColumns) /\ [][C2_ReturnSplit]_vars

C2_Witness ==
    /\ pc = "idle"
    /\ out.status = "returned"
    /\ Len(out.value) = 2
    /\ Len(out.value[1]) = 2
    /\ out.value[2] \in WidthVals

\* C3: whenever a lifetime handed to _genD is <= 0 the generator fails with
\* DomainError: no decay matrix is built and the fit is aborted.
C3_DomainError ==
    (pc \in {"minimize", "fitted"} /\ taus # <<>>
        /\ \E j \in Lifetimes : taus[j] <= 0) =>
        /\ D = <<>>
        /\ out.status = "DomainError"

RankDeficient(A) == \E k \in 1..NCols(A) : ZeroDiag(A, 0, k)

\* C4: _getDAS with alpha = 0 on a rank-deficient D fails with
\* SingularMatrixError: no amplitude matrix is returned and no non-finite
\* value reaches the residual or the reconstruction.
C4_SingularMatrixError ==
    (InFit /\ call.alpha = 0 /\ RankDeficient(D)) =>
        /\ DAS = NoDAS
        /\ res # "nan"
        /\ SpecFit.val # "nan"
        /\ out.status = "SingularMatrixError"

NonZeroDiagonal(R) == \A i \in 1..Len(R) : R[i][i] # <<0, 1>>

\* the sum over k = from..K of R[i][k] * X[k]
RECURSIVE RowSum(_, _, _, _)
RowSum(R, X, i, from) ==
    IF from > Len(X) THEN ZeroRow(Len(X[1]))
    ELSE VAdd(VScale(R[i][from], X[from]), RowSum(R, X, i, from + 1))

\* C5: for an upper-triangular R of order K >= 1 with non-zero diagonal the
\* loop ends with X[K] = Z[K]/R[K,K] and, for every row i above it,
\* X[i] = (Z[i] - sum over k > i of R[i,k]*X[k]) / R[i,i], so that R*X = Z.
C5_BackSubstitution ==
    (bs.done /\ NonZeroDiagonal(bs.R)) =>
        LET K == Len(bs.R)
        IN  /\ Len(bs.X) = K
            /\ bs.X[K] = VDiv(bs.QtY[K], bs.R[K][K])
            /\ \A i \in 1..(K - 1) :
                  bs.X[i] = VDiv(VSub(bs.QtY[i], RowSum(bs.R, bs.X, i, i + 1)),
                                 bs.R[i][i])
            /\ \A i \in 1..K : RowSum(bs.R, bs.X, i, i) = bs.QtY[i]

C5_Witness ==
    /\ bs.done
    /\ Len(bs.R) = 3
    /\ NonZeroDiagonal(bs.R)
    /\ bs.R[1][2] # <<0, 1>> /\ bs.R[1][3] # <<0, 1>> /\ bs.R[2][3] # <<0, 1>>
    /\ bs.X[3] # ZeroRow(2)

\* The finiteness rule of getDAS, checked against the exact loop: a row of
\* the result is finite exactly when no diagonal entry of R at or below it is
\* zero.
getDAS_rule_is_exact ==
    bs.done =>
        \A k \in 1..Len(bs.R) : \A c \in 1..Len(bs.X[k]) :
            IsFinite(bs.X[k][c]) <=> \A m \in k..Len(bs.R) : bs.R[m][m] # <<0, 1>>

C6_Step ==
    /\ pc = "minimize" => renders' = renders
    /\ renders' > renders =>
          /\ pc = "fitted" /\ pc' = "idle"
          /\ renders = 0 /\ renders' = 1
          /\ D = genD(taus, self.T, call.fit_irf, self.FWHM_mod)
          /\ DAS = getDAS(D, sel.fit, call.alpha)
          /\ SpecFit = DotDAS(D, DAS)

\* C6: _plot_res runs only in the step that ends a Global call, after the
\* optimizer has returned and D, DAS and the reconstruction have been
\* recomputed at its result; no objective evaluation renders, and a call
\* renders at most once.
C6_RenderAfterFit == [][C6_Step]_vars

C6_Witness ==
    /\ pc = "idle"
    /\ renders = 1
    /\ out.status = "returned"
    /\ fig.open

\* C7: after any sequence of Global calls every field of the object has the
\* value the last updateData set.
C7_Stateless == \E d \in DataSets : self = updateData(d)

\* C8: every entry of D is the pure exponential exactly when width-fitting
\* is off and the stored FWHM_mod is zero; otherwise every entry is the
\* convolved form, with the sigma-equivalent of the last parameter as width
\* when width-fitting is on and the stored FWHM_mod otherwise.
C8_BranchSelection ==
    InFit =>
        \A i \in 1..Len(D) : \A j \in 1..Len(D[i]) :
            /\ D[i][j].form = "exp" <=>
                  (~call.fit_irf /\ IsZeroWidth(self.FWHM_mod))
            /\ D[i][j].form = "exp" => D[i][j] = ExpEntry(self.T[i], taus[j])
            /\ D[i][j].form # "exp" =>
                  /\ D[i][j].form = "emg"
                  /\ D[i][j].t = self.T[i]
                  /\ D[i][j].tau = taus[j]
                  /\ D[i][j].w = IF call.fit_irf THEN SigmaOf(taus[Len(taus)])
                                  ELSE self.FWHM_mod

C8_Witness ==
    /\ pc = "fitted"
    /\ ~call.fit_irf
    /\ self.FWHM = 0
    /\ Len(taus) = 2
    /\ D[2][2] = ExpEntry(1, taus[2])

\* C9: in the convolved branch the second exponential's argument is w^2
\* divided by 2*tau^2.
C9_EmgClosedForm ==
    InFit =>
        \A i \in 1..Len(D) : \A j \in 1..Len(D[i]) :
            D[i][j].form = "emg" => D[i][j].exp2_den = 2 * D[i][j].tau * D[i][j].tau

\* C10: every position of the result slider addresses a fitted column, a
\* column of the reconstruction and a label, and the label shown is the basis
\* index of the column shown.
C10_SliderInRange ==
    fig.open =>
        /\ \A n \in 1..fig.valmax :
              /\ n <= NCols(fig.wLSV_fit)
              /\ n <= fig.SpecFit.ncols
              /\ n <= Len(fig.wLSVs)
        /\ fig.err # "IndexError"

====
